---- MODULE Spec2Model ----
(***************************************************************************)
(* Authentication, session and authorization core of Bau-Structura:        *)
(* server/localAuth.ts (credential hashing, passport local strategy,       *)
(* register / login / logout, forgot-password / reset-password) and the    *)
(* user-related routes of server/routes.ts (profile, payment status,       *)
(* isAdmin guard and the /api/admin/users family).                          *)
(***************************************************************************)
EXTENDS Integers, Sequences, FiniteSets, TLC

(***************************************************************************)
(* Bounds of the model.                                                    *)
(***************************************************************************)
MaxOps == 3            \* requests accepted by the server in one behaviour
MaxLocal == 1          \* ids minted by POST /api/auth/register
MaxTokens == 1         \* reset tokens minted by POST /api/auth/forgot-password
MaxSlots == 2          \* reset-password requests that may be in flight at once
MaxNow == 9            \* days the clock may advance to

\* sessionTtl = 7 * 24 * 60 * 60 * 1000 ms, in days
sessionTtl == 7

Slots == 1 .. MaxSlots

(***************************************************************************)
(* Input domains.                                                          *)
(***************************************************************************)
None == "none"
Clients == {"c1", "c2"}                    \* browsers (cookie jars)
Emails == {"root@x", "alice@x"}            \* addresses presented to lookups
NewEmails == Emails \cup {"Alice@x"}        \* addresses written to the users table
Passwords == {"pw1", "pw2"}
Salts == {"s1", "s2"}
Names == {"Ann", "Bea"}
Usernames == {"bob"}
Roles == {"user", "manager", "admin"}
LicenseTypes == {"basic", "professional"}
AdminId == "admin"

LocalId(i) == CASE i = 1 -> "local_1" [] i = 2 -> "local_2" [] i = 3 -> "local_3" [] OTHER -> "local_4"
TokenAt(i) == CASE i = 1 -> "tok_1" [] i = 2 -> "tok_2" [] i = 3 -> "tok_3" [] OTHER -> "tok_4"
TokenValues == {TokenAt(i) : i \in 1 .. MaxTokens}

\* String.prototype.toLowerCase on the e-mail addresses of the model
Lower(e) == IF e = "Alice@x" THEN "alice@x" ELSE e

(***************************************************************************)
(* Strings that reach the password column.  A string is a sequence of      *)
(* pieces: the delimiter ".", the hex encoding of a byte buffer, or text   *)
(* that is not hex.  A byte buffer is [len, val].                          *)
(***************************************************************************)
Dot == [kind |-> "dot", bytes |-> [len |-> 0, val |-> <<>>]]
HexPiece(b) == [kind |-> "hex", bytes |-> b]
TextPiece(t) == [kind |-> "text", bytes |-> [len |-> 0, val |-> <<t>>]]
Undefined == <<[kind |-> "undefined", bytes |-> [len |-> 0, val |-> <<>>]]>>

\* crypto.randomBytes(16)
randomBytes16(s) == [len |-> 16, val |-> <<s>>]
\* buf.toString("hex")
toHex(b) == <<HexPiece(b)>>
\* crypto.scrypt(password, salt, 64): throws on a salt that is not a string
scryptThrows(salt) == salt = Undefined
scrypt(password, salt) == [len |-> 64, val |-> <<password, salt>>]

\* generateSecurePassword(): 12 characters of a charset without "."
generateSecurePassword == "gen1"

\* a plaintext written to the password column as it is
AsString(p) == <<TextPiece(p)>>

\* a hashPassword that writes the salt before the derived key
hashPasswordSaltFirst(password, s) ==
  toHex(randomBytes16(s)) \o <<Dot>> \o toHex(scrypt(password, toHex(randomBytes16(s))))

\* hashPassword(password) with the salt drawn by randomBytes
hashPassword(password, s) ==
  LET salt == toHex(randomBytes16(s))
      buf == scrypt(password, salt)
  IN toHex(buf) \o <<Dot>> \o salt

\* stored.split(".")
RECURSIVE SplitFrom(_, _, _)
SplitFrom(str, i, cur) ==
  IF i > Len(str) THEN <<cur>>
  ELSE IF str[i].kind = "dot" THEN <<cur>> \o SplitFrom(str, i + 1, <<>>)
  ELSE SplitFrom(str, i + 1, Append(cur, str[i]))
Split(str) == SplitFrom(str, 1, <<>>)

\* Buffer.from(str, "hex"): decoding stops at the first non-hex character
BufferFromHex(str) ==
  IF Len(str) >= 1 /\ str[1].kind = "hex" THEN str[1].bytes
  ELSE [len |-> 0, val |-> <<>>]

\* crypto.timingSafeEqual(a, b): throws when the lengths differ
timingSafeEqualThrows(a, b) == a.len # b.len
timingSafeEqual(a, b) == a.val = b.val

\* comparePasswords(supplied, stored): "true", "false" or "throw"
comparePasswords(supplied, stored) ==
  LET parts == Split(stored)
      hashed == parts[1]
      salt == IF Len(parts) >= 2 THEN parts[2] ELSE Undefined
      hashedBuf == BufferFromHex(hashed)
  IN IF scryptThrows(salt) THEN "throw"
     ELSE LET suppliedBuf == scrypt(supplied, salt)
          IN IF timingSafeEqualThrows(hashedBuf, suppliedBuf) THEN "throw"
             ELSE IF timingSafeEqual(hashedBuf, suppliedBuf) THEN "true"
             ELSE "false"

(***************************************************************************)
(* State.                                                                  *)
(***************************************************************************)
VARIABLES
  users,        \* users table: id -> [email, password, role, firstName, licenseType]
  session,      \* sessions table joined with the cookie of each client: client -> user id or None
  inflight,     \* reset-password requests between their awaits
  response,     \* the last response sent, with the request it answers
  issued,       \* history: <<token, user id>> pairs surfaced by forgot-password
  redeemed,     \* history: tokens presented in a successful reset-password
  minted,       \* number of ids minted by register
  production,   \* process.env.NODE_ENV = "production"
  nops,         \* requests accepted so far
  now,          \* the clock, in days
  expire,       \* sessions table: the expire column of each client's session (0 without a session)
  created,      \* history: the day each client's session was created (0 without a session)
  pending,      \* register requests between their awaits: client -> request or NoRegistration
  projects,     \* projects table: the managerId of every row
  tickets,      \* support_tickets table: rows [id, createdBy]
  creating      \* manager-level requests between their awaits: client -> call or NoCall

vars == <<users, session, inflight, response, issued, redeemed, minted, production, nops,
          now, expire, created, pending, projects, tickets, creating>>

NoRegistration == [email |-> None, password |-> None, firstName |-> None]

\* no manager-level request of the client is waiting for storage.getUser
NoCall == [op |-> None, userId |-> None]

\* what no request of the auth and user routes writes
business == <<projects, tickets, creating>>
\* what a request without a session cookie leaves alone
clock == <<now, expire, created>>

IdleSlot == [pc |-> "idle", newPassword |-> None, resetToken |-> None,
             user |-> None, usedBefore |-> FALSE, raced |-> FALSE]
NoRequest == [op |-> "none"]

Respond(op, req, status, body) == [op |-> op, req |-> req, status |-> status, body |-> body]

Init ==
  /\ users = (AdminId :> [email |-> "root@x", password |-> hashPassword("pw1", "s1"),
                          role |-> "admin", firstName |-> "Ann", licenseType |-> "basic"])
  /\ session = [c \in Clients |-> None]
  /\ inflight = [s \in Slots |-> IdleSlot]
  /\ response = Respond("none", NoRequest, 0, [message |-> None])
  /\ issued = {}
  /\ redeemed = {}
  /\ minted = 0
  /\ production = FALSE
  /\ nops = 0
  /\ now = 0
  /\ expire = [c \in Clients |-> 0]
  /\ created = [c \in Clients |-> 0]
  /\ pending = [c \in Clients |-> NoRegistration]
  /\ projects = {}
  /\ tickets = {}
  /\ creating = [c \in Clients |-> NoCall]

\* the same server started with NODE_ENV=production
InitProduction ==
  /\ users = (AdminId :> [email |-> "root@x", password |-> hashPassword("pw1", "s1"),
                          role |-> "admin", firstName |-> "Ann", licenseType |-> "basic"])
  /\ session = [c \in Clients |-> None]
  /\ inflight = [s \in Slots |-> IdleSlot]
  /\ response = Respond("none", NoRequest, 0, [message |-> None])
  /\ issued = {}
  /\ redeemed = {}
  /\ minted = 0
  /\ production = TRUE
  /\ nops = 0
  /\ now = 0
  /\ expire = [c \in Clients |-> 0]
  /\ created = [c \in Clients |-> 0]
  /\ pending = [c \in Clients |-> NoRegistration]
  /\ projects = {}
  /\ tickets = {}
  /\ creating = [c \in Clients |-> NoCall]

Accept == nops < MaxOps /\ nops' = nops + 1

(***************************************************************************)
(* Storage layer (server/storage.ts).                                      *)
(***************************************************************************)
\* storage.getUser(id): the id, or None
getUser(id) == IF id \in DOMAIN users THEN id ELSE None

\* storage.getUserByEmail(email): the id of the account with that e-mail
\* (case-insensitive lookup key), or None
getUserByEmail(email) ==
  IF \E i \in DOMAIN users : Lower(users[i].email) = Lower(email)
  THEN CHOOSE i \in DOMAIN users : Lower(users[i].email) = Lower(email)
  ELSE None

\* a users table without the unique index
EmailTakenNever(id, email) == FALSE

\* unique index on the lowercased e-mail
EmailTaken(id, email) ==
  \E i \in DOMAIN users : i # id /\ Lower(users[i].email) = Lower(email)

Merge(row, data) == [k \in DOMAIN row |-> IF k \in DOMAIN data THEN data[k] ELSE row[k]]

\* storage.updateUser(id, data): the table after the update
updateUser(id, data) ==
  IF id \in DOMAIN users THEN [users EXCEPT ![id] = Merge(users[id], data)] ELSE users
updateUserThrows(id, data) ==
  /\ id \in DOMAIN users
  /\ "email" \in DOMAIN data
  /\ EmailTaken(id, data.email)

\* storage.upsertUser(row): insert, or update on a conflict on id
upsertUser(id, row) ==
  IF id \in DOMAIN users THEN [users EXCEPT ![id] = Merge(users[id], row)]
  ELSE users @@ (id :> row)
upsertUserThrows(id, row) == EmailTaken(id, row.email)

\* storage.deleteUser(id)
deleteUser(id) == [i \in DOMAIN users \ {id} |-> users[i]]

(***************************************************************************)
(* Session middleware: passport.session() with deserializeUser.            *)
(***************************************************************************)
\* req.user from a session store that returns expired sessions
reqUserIgnoringExpiry(c) ==
  IF session[c] # None THEN getUser(session[c]) ELSE None

\* req.user taken from the session without looking the user up
reqUserUnchecked(c) ==
  IF session[c] # None /\ now <= expire[c] THEN session[c] ELSE None

\* req.user after the session store's lookup (expire >= now) and
\* deserializeUser: the id stored in the session if the user still exists
reqUser(c) ==
  IF session[c] # None /\ now <= expire[c] THEN getUser(session[c]) ELSE None

\* a guard that admits every request carrying a session
isAuthenticatedAnySession(c) == session[c] # None

\* req.isAuthenticated()
isAuthenticated(c) == reqUser(c) # None

\* the session after the middleware ran: a user that no longer exists is
\* removed from the session
sessionAfterDeserialize(c) ==
  IF isAuthenticated(c) THEN session ELSE [session EXCEPT ![c] = None]

\* a session store that sets the expiry once, when the session is created
SessionClockFixed(c, fresh) ==
  /\ expire' = [expire EXCEPT ![c] = IF session'[c] = None THEN 0
                                     ELSE IF fresh THEN now + sessionTtl ELSE expire[c]]
  /\ created' = [created EXCEPT ![c] = IF session'[c] = None THEN 0
                                       ELSE IF fresh THEN now ELSE created[c]]
  /\ UNCHANGED now

\* the session store at the end of a request of client c: a session that is
\* saved or touched expires sessionTtl after now (cookie.maxAge, no rolling,
\* resave: false, store with touch); fresh: the request created the session
SessionClock(c, fresh) ==
  /\ expire' = [expire EXCEPT ![c] = IF session'[c] = None THEN 0 ELSE now + sessionTtl]
  /\ created' = [created EXCEPT ![c] = IF session'[c] = None THEN 0
                                       ELSE IF fresh THEN now ELSE created[c]]
  /\ UNCHANGED now

(***************************************************************************)
(* localAuth.ts: login, register, logout.                                  *)
(***************************************************************************)
\* a verify callback that accepts every password of an existing account
verifyCallbackAnyPassword(email, password) ==
  IF getUserByEmail(email) = None THEN <<"fail", None>> ELSE <<"ok", getUserByEmail(email)>>

\* LocalStrategy verify callback: <<"ok", user>>, <<"fail", None>> or <<"error", None>>
verifyCallback(email, password) ==
  LET user == getUserByEmail(email)
  IN IF user = None THEN <<"fail", None>>
     ELSE LET isValid == comparePasswords(password, users[user].password)
          IN IF isValid = "throw" THEN <<"error", None>>
             ELSE IF isValid = "false" THEN <<"fail", None>>
             ELSE <<"ok", user>>

\* a login that stores nothing in the session
reqLoginNobody(c, id) == session

\* req.login(user, cb) with serializeUser: the session of the request holds user.id
reqLogin(c, id) == [session EXCEPT ![c] = id]

\* passport.authenticate("local") without options: 401 Unauthorized on a
\* failed verification, the error handler (500) on done(error)
LoginResponse(outcome) ==
  CASE outcome[1] = "ok" -> [status |-> 200, body |-> [message |-> "Login successful", user |-> outcome[2]]]
    [] outcome[1] = "fail" -> [status |-> 401, body |-> [message |-> "Unauthorized"]]
    [] OTHER -> [status |-> 500, body |-> [message |-> "Internal Server Error"]]

Login(c, email, password) ==
  /\ Accept
  /\ LET outcome == verifyCallback(email, password)
         r == LoginResponse(outcome)
     IN /\ session' = IF outcome[1] = "ok" THEN reqLogin(c, outcome[2])
                      ELSE sessionAfterDeserialize(c)
        /\ response' = Respond("login",
                               IF outcome[1] = "ok"
                               THEN [email |-> email, password |-> password, client |-> c]
                               ELSE [email |-> email, password |-> password],
                               r.status, r.body)
        /\ SessionClock(c, outcome[1] = "ok")
  /\ UNCHANGED <<users, inflight, issued, redeemed, minted, production, pending, business>>

\* a register that skips the check of the existing user
RegisterExistsNever(email) == FALSE

\* POST /api/register, the check of the existing user
RegisterExists(email) == getUserByEmail(email) # None

RegisterRequest(email, password) == [email |-> email, password |-> password]

\* POST /api/register up to the first await that can be overtaken: 400 when
\* getUserByEmail finds a user
RegisterRejected(c, email, password) ==
  /\ response' = Respond("register", RegisterRequest(email, password), 400,
                         [message |-> "User already exists"])
  /\ session' = sessionAfterDeserialize(c)
  /\ SessionClock(c, FALSE)
  /\ UNCHANGED <<users, minted>>

\* a registration that makes the new user an administrator
RegisterRoleAdmin == "admin"

\* POST /api/register: the role of the row handed to upsertUser
RegisterRole == "user"

\* POST /api/register after the check: hashPassword, upsertUser with a new
\* id and role "user", req.login, 201; 500 when anything throws
RegisterCreate(c, email, password, s, firstName) ==
  LET id == LocalId(minted + 1)
      row == [email |-> email, password |-> hashPassword(password, s),
              role |-> RegisterRole, firstName |-> firstName, licenseType |-> "basic"]
  IN IF upsertUserThrows(id, row)
     THEN /\ response' = Respond("register", RegisterRequest(email, password), 500,
                                 [message |-> "Registration failed"])
          /\ session' = sessionAfterDeserialize(c)
          /\ SessionClock(c, FALSE)
          /\ UNCHANGED <<users, minted>>
     ELSE /\ minted < MaxLocal
          /\ minted' = minted + 1
          /\ users' = upsertUser(id, row)
          /\ session' = reqLogin(c, id)
          /\ SessionClock(c, TRUE)
          /\ response' = Respond("register",
                                 [email |-> email, password |-> password, client |-> c],
                                 201, [message |-> "Registration successful", user |-> id])

\* POST /api/register, handled without another request in between
Register(c, email, password, s, firstName) ==
  /\ Accept
  /\ pending[c] = NoRegistration
  /\ IF RegisterExists(email)
     THEN RegisterRejected(c, email, password)
     ELSE RegisterCreate(c, email, password, s, firstName)
  /\ UNCHANGED <<inflight, issued, redeemed, production, pending, business>>

\* POST /api/register until the handler waits for hashPassword and upsertUser
RegisterBegin(c, email, password, firstName) ==
  /\ Accept
  /\ pending[c] = NoRegistration
  /\ IF RegisterExists(email)
     THEN /\ RegisterRejected(c, email, password)
          /\ UNCHANGED pending
     ELSE /\ pending' = [pending EXCEPT ![c] = [email |-> email, password |-> password,
                                               firstName |-> firstName]]
          /\ UNCHANGED <<users, session, response, minted, clock>>
  /\ UNCHANGED <<inflight, issued, redeemed, production, business>>

\* POST /api/register from upsertUser on, for a request that passed the check
RegisterFinish(c, s) ==
  /\ pending[c] # NoRegistration
  /\ RegisterCreate(c, pending[c].email, pending[c].password, s, pending[c].firstName)
  /\ pending' = [pending EXCEPT ![c] = NoRegistration]
  /\ UNCHANGED <<inflight, issued, redeemed, production, nops, business>>

\* a logout that answers but leaves the session as it is
LogoutKeepsSession(c) ==
  /\ Accept
  /\ response' = Respond("logout", [client |-> c], 200, [message |-> "Logout successful"])
  /\ UNCHANGED <<users, session, inflight, issued, redeemed, minted, production, pending,
                 business>>
  /\ SessionClock(c, FALSE)

\* POST /api/auth/logout: req.logout removes the user from the session
Logout(c) ==
  /\ Accept
  /\ session' = [session EXCEPT ![c] = None]
  /\ response' = Respond("logout", [client |-> c], 200, [message |-> "Logout successful"])
  /\ UNCHANGED <<users, inflight, issued, redeemed, minted, production, pending, business>>
  /\ SessionClock(c, FALSE)

\* the route POST /api/auth/logout registers
LogoutRoute == [method |-> "POST", path |-> "/api/auth/logout"]

\* Profile.handleLogout: window.location.href = "/api/logout", a navigation
handleLogout == [method |-> "GET", path |-> "/api/logout"]

\* the Abmelden button of the profile page: the browser sends handleLogout's
\* request with the session cookie. It runs the logout handler when it
\* matches the logout route; otherwise no route of registerRoutes matches and
\* whatever is mounted after them answers (status), the session middleware
\* having run
ProfileLogout(c, status) ==
  /\ Accept
  /\ IF handleLogout = LogoutRoute
     THEN /\ session' = [session EXCEPT ![c] = None]
          /\ response' = Respond("profileLogout", [client |-> c], 200,
                                 [message |-> "Logout successful"])
     ELSE /\ session' = sessionAfterDeserialize(c)
          /\ response' = Respond("profileLogout", [client |-> c], status, [message |-> None])
  /\ UNCHANGED <<users, inflight, issued, redeemed, minted, production, pending, business>>
  /\ SessionClock(c, FALSE)

\* GET /api/auth/user
GetUser(c) ==
  /\ Accept
  /\ IF isAuthenticated(c)
     THEN /\ response' = Respond("user", [client |-> c], 200, [user |-> reqUser(c)])
          /\ UNCHANGED session
     ELSE /\ response' = Respond("user", [client |-> c], 401, [message |-> "Not authenticated"])
          /\ session' = sessionAfterDeserialize(c)
  /\ UNCHANGED <<users, inflight, issued, redeemed, minted, production, pending, business>>
  /\ SessionClock(c, FALSE)

\* time passes by d days; nothing is written
Tick(d) ==
  /\ now + d <= MaxNow
  /\ now' = now + d
  /\ UNCHANGED <<users, session, inflight, response, issued, redeemed, minted, production,
                 nops, expire, created, pending, business>>

(***************************************************************************)
(* localAuth.ts: forgot-password and reset-password.                       *)
(***************************************************************************)
ResetLinkSent == "Falls die E-Mail-Adresse registriert ist, wurde ein Reset-Link gesendet."

\* the body of the forgot-password response for an existing account
ForgotBody(resetToken) == [message |-> ResetLinkSent, resetToken |-> resetToken]

ForgotPassword(email) ==
  /\ Accept
  /\ LET user == IF email = None THEN None ELSE getUserByEmail(email)
         resetToken == TokenAt(Cardinality(issued) + 1)
         req == [email |-> email]
     IN IF email = None
        THEN /\ response' = Respond("forgot", req, 400, [message |-> "E-Mail-Adresse ist erforderlich"])
             /\ UNCHANGED issued
        ELSE IF user = None
        THEN /\ response' = Respond("forgot", req, 200, [message |-> ResetLinkSent])
             /\ UNCHANGED issued
        ELSE /\ Cardinality(issued) < MaxTokens
             /\ issued' = issued \cup {<<resetToken, user>>}
             /\ response' = Respond("forgot", req, 200, ForgotBody(resetToken))
  /\ UNCHANGED <<users, session, inflight, redeemed, minted, production, clock, pending, business>>

\* reset-password up to and including "await storage.getUserByEmail(email)"
ResetPasswordBegin(s, email, newPassword, resetToken) ==
  /\ Accept
  /\ inflight[s].pc = "idle"
  /\ \A t \in Slots : t < s => inflight[t].pc # "idle"
  /\ LET user == IF email = None THEN None ELSE getUserByEmail(email)
         req == [newPassword |-> newPassword, resetToken |-> resetToken,
                 user |-> user, usedBefore |-> resetToken \in redeemed, raced |-> FALSE]
     IN IF email = None \/ newPassword = None \/ resetToken = None
        THEN /\ response' = Respond("reset", [k \in DOMAIN IdleSlot \ {"pc"} |-> IdleSlot[k]], 400,
                                    [message |-> "Alle Felder sind erforderlich"])
             /\ UNCHANGED inflight
        ELSE IF user = None
        THEN /\ response' = Respond("reset", req, 400, [message |-> "Ungueltiger Reset-Link"])
             /\ UNCHANGED inflight
        ELSE /\ inflight' = [inflight EXCEPT ![s] = [pc |-> "looked"] @@ req]
             /\ UNCHANGED response
  /\ UNCHANGED <<users, session, issued, redeemed, minted, production, clock, pending, business>>

\* a reset-password that answers 200 without writing the password
ResetPasswordFinishNoWrite(s, salt) ==
  /\ inflight[s].pc = "looked"
  /\ response' = Respond("reset", [k \in DOMAIN inflight[s] \ {"pc"} |-> inflight[s][k]], 200,
                         [message |-> "Passwort erfolgreich zurueckgesetzt"])
  /\ redeemed' = redeemed \cup {inflight[s].resetToken}
  /\ inflight' = [inflight EXCEPT ![s] = IdleSlot]
  /\ UNCHANGED <<users, session, issued, minted, production, nops, clock, pending, business>>

\* reset-password from "await hashPassword(newPassword)" to the response
ResetPasswordFinish(s, salt) ==
  /\ inflight[s].pc = "looked"
  /\ LET r == inflight[s]
         hashedPassword == hashPassword(r.newPassword, salt)
     IN /\ users' = updateUser(r.user, [password |-> hashedPassword])
        /\ response' = Respond("reset", [k \in DOMAIN r \ {"pc"} |-> r[k]], 200,
                               [message |-> "Passwort erfolgreich zurueckgesetzt"])
        /\ redeemed' = redeemed \cup {r.resetToken}
        /\ inflight' = [t \in Slots |->
                          IF t = s THEN IdleSlot
                          ELSE IF inflight[t].pc = "looked" /\ inflight[t].resetToken = r.resetToken
                               THEN [inflight[t] EXCEPT !.raced = TRUE]
                               ELSE inflight[t]]
  /\ UNCHANGED <<session, issued, minted, production, nops, clock, pending, business>>

(***************************************************************************)
(* routes.ts: profile and payment status (any authenticated user).         *)
(***************************************************************************)
Restrict(f, keys) == [k \in DOMAIN f \cap keys |-> f[k]]

Unauthorized(op, c) ==
  /\ session' = sessionAfterDeserialize(c)
  /\ response' = Respond(op, [client |-> c], 401, [message |-> "Unauthorized"])
  /\ UNCHANGED <<users, minted>>

\* PATCH /api/profile with "role" let through by the allow-list
ProfileAllowedFieldsWithRole ==
  {"firstName", "lastName", "privacyConsent", "sftpHost", "sftpPort", "sftpUsername",
   "sftpPassword", "sftpPath", "emailNotificationsEnabled", "role"}

\* allowedFields of PATCH /api/profile
ProfileAllowedFields ==
  {"firstName", "lastName", "privacyConsent", "sftpHost", "sftpPort", "sftpUsername",
   "sftpPassword", "sftpPath", "emailNotificationsEnabled"}

ProfileBodies ==
  {[firstName |-> "Bea"], [role |-> "admin"], [firstName |-> "Bea", role |-> "admin"]}

UpdateProfile(c, updateData) ==
  /\ Accept
  /\ LET req == [client |-> c, keys |-> DOMAIN updateData]
         filteredData == Restrict(updateData, ProfileAllowedFields)
     IN IF ~isAuthenticated(c) THEN Unauthorized("profile", c)
        ELSE /\ IF DOMAIN filteredData = {}
                THEN /\ response' = Respond("profile", req, 400, [message |-> "No valid fields to update"])
                     /\ UNCHANGED users
                ELSE /\ users' = updateUser(reqUser(c), filteredData)
                     /\ response' = Respond("profile", req, 200, [message |-> "updated"])
             /\ UNCHANGED <<session, minted>>
  /\ UNCHANGED <<inflight, issued, redeemed, production, pending, business>>
  /\ SessionClock(c, FALSE)

\* GET /api/payment-status: paymentIntent is what Stripe returns
PaymentStatus(c, succeeded, licenseType) ==
  /\ Accept
  /\ LET req == [client |-> c]
     IN IF ~isAuthenticated(c) THEN Unauthorized("payment", c)
        ELSE /\ IF succeeded
                THEN users' = updateUser(reqUser(c), [licenseType |-> licenseType])
                ELSE UNCHANGED users
             /\ response' = Respond("payment", req, 200,
                                    [message |-> IF succeeded THEN "succeeded" ELSE "pending"])
             /\ UNCHANGED <<session, minted>>
  /\ UNCHANGED <<inflight, issued, redeemed, production, pending, business>>
  /\ SessionClock(c, FALSE)

(***************************************************************************)
(* routes.ts: admin routes behind isAuthenticated and isAdmin.              *)
(***************************************************************************)
\* an isAdmin that admits every authenticated principal
isAdminAnyRole(c) == reqUser(c) # None

\* isAdmin: the role is read from the users table on every request
isAdmin(c) == getUser(reqUser(c)) # None /\ users[reqUser(c)].role = "admin"

Forbidden(op, c) ==
  /\ response' = Respond(op, [client |-> c], 403, [message |-> "Admin access required"])
  /\ UNCHANGED <<users, session, minted>>

\* POST /api/admin/users
AdminCreateUser(c, username, email, role, licenseType) ==
  /\ Accept
  /\ LET req == [client |-> c, id |-> username]
         temporaryPassword == generateSecurePassword
         userData == [email |-> email,
                      role |-> IF role = None THEN "user" ELSE role,
                      licenseType |-> IF licenseType = None THEN "basic" ELSE licenseType,
                      firstName |-> username,
                      password |-> AsString(temporaryPassword)]
     IN IF ~isAuthenticated(c) THEN Unauthorized("adminCreate", c)
        ELSE IF ~isAdmin(c) THEN Forbidden("adminCreate", c)
        ELSE /\ IF getUser(username) # None
                THEN /\ response' = Respond("adminCreate", req, 409, [message |-> "Username bereits vergeben"])
                     /\ UNCHANGED users
                ELSE IF upsertUserThrows(username, userData)
                THEN /\ response' = Respond("adminCreate", req, 500, [message |-> "Failed to create user"])
                     /\ UNCHANGED users
                ELSE /\ users' = upsertUser(username, userData)
                     /\ response' = Respond("adminCreate", req, 201,
                                            [message |-> "Benutzer erstellt und Passwort per E-Mail versendet"])
             /\ UNCHANGED <<session, minted>>
  /\ UNCHANGED <<inflight, issued, redeemed, production, pending, business>>
  /\ SessionClock(c, FALSE)

\* POST /api/admin/users/:id/reset-password; mailOk: sendWelcomeEmail did not throw
AdminResetPassword(c, id, s, mailOk) ==
  /\ Accept
  /\ LET req == [client |-> c, id |-> id]
         byId == getUser(id)
         user == IF byId # None THEN byId ELSE getUserByEmail(id)
         newPassword == generateSecurePassword
         hashedPassword == hashPassword(newPassword, s)
     IN IF ~isAuthenticated(c) THEN Unauthorized("adminReset", c)
        ELSE IF ~isAdmin(c) THEN Forbidden("adminReset", c)
        ELSE /\ IF user = None
                THEN /\ response' = Respond("adminReset", req, 404, [message |-> "Benutzer nicht gefunden"])
                     /\ UNCHANGED users
                ELSE /\ users' = updateUser(user, [password |-> hashedPassword])
                     /\ response' = IF mailOk
                                    THEN Respond("adminReset", req, 200, [message |-> "Neues Passwort gesendet"])
                                    ELSE Respond("adminReset", req, 500, [message |-> "E-Mail-Versand fehlgeschlagen"])
             /\ UNCHANGED <<session, minted>>
  /\ UNCHANGED <<inflight, issued, redeemed, production, pending, business>>
  /\ SessionClock(c, FALSE)

\* allowedFields of PATCH /api/admin/users/:id
AdminAllowedFields == {"firstName", "lastName", "email", "role", "emailNotificationsEnabled"}

AdminBodies ==
  {[role |-> r] : r \in Roles} \cup {[email |-> e] : e \in NewEmails}
    \cup {[role |-> "manager", licenseType |-> "professional"]}

\* PATCH /api/admin/users/:id
AdminUpdateUser(c, id, updateData) ==
  /\ Accept
  /\ LET req == [client |-> c, id |-> id]
         filteredData == Restrict(updateData, AdminAllowedFields)
     IN IF ~isAuthenticated(c) THEN Unauthorized("adminUpdate", c)
        ELSE IF ~isAdmin(c) THEN Forbidden("adminUpdate", c)
        ELSE /\ IF updateUserThrows(id, filteredData)
                THEN /\ response' = Respond("adminUpdate", req, 500, [message |-> "Failed to update user"])
                     /\ UNCHANGED users
                ELSE /\ users' = updateUser(id, filteredData)
                     /\ response' = Respond("adminUpdate", req, 200, [message |-> "updated"])
             /\ UNCHANGED <<session, minted>>
  /\ UNCHANGED <<inflight, issued, redeemed, production, pending, business>>
  /\ SessionClock(c, FALSE)

\* a self-deletion check that never finds the requester
IsOwnAccountNever(c, id) == FALSE

\* DELETE /api/admin/users/:id: id === req.user.id
IsOwnAccount(c, id) == id = reqUser(c)

\* DELETE /api/admin/users/:id
AdminDeleteUser(c, id) ==
  /\ Accept
  /\ LET req == [client |-> c, id |-> id]
     IN IF ~isAuthenticated(c) THEN Unauthorized("adminDelete", c)
        ELSE IF ~isAdmin(c) THEN Forbidden("adminDelete", c)
        ELSE /\ IF IsOwnAccount(c, id)
                THEN /\ response' = Respond("adminDelete", req, 400, [message |-> "Cannot delete your own account"])
                     /\ UNCHANGED users
                ELSE /\ users' = deleteUser(id)
                     /\ response' = Respond("adminDelete", req, 200, [message |-> "User deleted successfully"])
             /\ UNCHANGED <<session, minted>>
  /\ UNCHANGED <<inflight, issued, redeemed, production, pending, business>>
  /\ SessionClock(c, FALSE)

(***************************************************************************)
(* routes.ts: POST /api/projects (manager or admin).                       *)
(***************************************************************************)
\* the role check of POST /api/projects: user?.role === "user", admins only
CreateProjectRejectsManagers(userId) ==
  ~(getUser(userId) # None /\ users[userId].role = "admin")

\* the role check of POST /api/projects: user?.role === "user"
CreateProjectRejects(userId) ==
  getUser(userId) # None /\ users[userId].role = "user"

\* the handler of POST /api/projects for the req.user.id the guard resolved
CreateProjectHandler(c, userId, valid) ==
  IF CreateProjectRejects(userId)
  THEN /\ response' = Respond("createProject", [client |-> c], 403,
                              [message |-> "Insufficient permissions"])
       /\ UNCHANGED projects
  ELSE IF ~valid
  THEN /\ response' = Respond("createProject", [client |-> c], 400,
                              [message |-> "Invalid project data"])
       /\ UNCHANGED projects
  ELSE /\ projects' = projects \cup {userId}
       /\ response' = Respond("createProject", [client |-> c], 201, [managerId |-> userId])

\* POST /api/projects behind isAuthenticated, handled without another
\* request in between
CreateProject(c, valid) ==
  /\ Accept
  /\ creating[c] = NoCall
  /\ IF ~isAuthenticated(c)
     THEN /\ Unauthorized("createProject", c)
          /\ UNCHANGED projects
     ELSE /\ CreateProjectHandler(c, reqUser(c), valid)
          /\ UNCHANGED <<users, session, minted>>
  /\ UNCHANGED <<inflight, issued, redeemed, production, pending, tickets, creating>>
  /\ SessionClock(c, FALSE)

\* a manager-level route (op) behind isAuthenticated, up to its handler's
\* "await storage.getUser(userId)" with the req.user.id of the session
ManagerCallBegin(op, c) ==
  /\ Accept
  /\ creating[c] = NoCall
  /\ IF ~isAuthenticated(c)
     THEN /\ Unauthorized(op, c)
          /\ UNCHANGED creating
     ELSE /\ creating' = [creating EXCEPT ![c] = [op |-> op, userId |-> reqUser(c)]]
          /\ UNCHANGED <<users, session, minted, response>>
  /\ UNCHANGED <<inflight, issued, redeemed, production, pending, projects, tickets>>
  /\ SessionClock(c, FALSE)

\* POST /api/projects up to the role lookup
CreateProjectBegin(c) == ManagerCallBegin("createProject", c)

\* POST /api/projects from the result of storage.getUser(userId) on
CreateProjectFinish(c, valid) ==
  /\ creating[c].op = "createProject"
  /\ CreateProjectHandler(c, creating[c].userId, valid)
  /\ creating' = [creating EXCEPT ![c] = NoCall]
  /\ UNCHANGED <<users, session, inflight, issued, redeemed, minted, production, nops,
                 clock, pending, tickets>>

\* POST /api/sftp/upload up to the role lookup
SftpUploadBegin(c) == ManagerCallBegin("sftpUpload", c)

\* POST /api/sftp/upload from the result of storage.getUser(userId) on; the
\* upload is a mock whose only effect is the answer; hasName: fileName is present
SftpUploadFinish(c, hasName) ==
  /\ creating[c].op = "sftpUpload"
  /\ LET userId == creating[c].userId
         req == [client |-> c, user |-> userId]
     IN response' =
          IF getUser(userId) # None /\ users[userId].role = "user"
          THEN Respond("sftpUpload", req, 403,
                       [message |-> "SFTP upload requires manager or admin role"])
          ELSE IF ~hasName
          THEN Respond("sftpUpload", req, 400, [message |-> "File name is required"])
          ELSE Respond("sftpUpload", req, 200, [message |-> "File uploaded successfully"])
  /\ creating' = [creating EXCEPT ![c] = NoCall]
  /\ UNCHANGED <<users, session, inflight, issued, redeemed, minted, production, nops,
                 clock, pending, projects, tickets>>

(***************************************************************************)
(* routes.ts: support tickets.                                             *)
(***************************************************************************)
\* POST /api/support-tickets; valid: subject and description are present
CreateSupportTicket(c, valid) ==
  /\ Accept
  /\ IF ~isAuthenticated(c)
     THEN /\ Unauthorized("createTicket", c)
          /\ UNCHANGED tickets
     ELSE /\ IF ~valid
             THEN /\ response' = Respond("createTicket", [client |-> c], 400,
                                         [message |-> "Subject and description are required"])
                  /\ UNCHANGED tickets
             ELSE /\ tickets' = tickets \cup {[id |-> Cardinality(tickets) + 1,
                                               createdBy |-> reqUser(c)]}
                  /\ response' = Respond("createTicket", [client |-> c], 201,
                                         [ticket |-> Cardinality(tickets) + 1])
          /\ UNCHANGED <<users, session, minted>>
  /\ UNCHANGED <<inflight, issued, redeemed, production, pending, projects, creating>>
  /\ SessionClock(c, FALSE)

\* GET /api/support-tickets as registered first: administrators only
SupportTicketsAdminOnly(c, userId) ==
  IF ~(getUser(userId) # None /\ users[userId].role = "admin")
  THEN response' = Respond("listTickets", [client |-> c], 403,
                           [message |-> "Insufficient permissions"])
  ELSE response' = Respond("listTickets", [client |-> c], 200, [tickets |-> tickets])

\* GET /api/support-tickets as registered second: what res.json would send
SupportTicketsByRole(userId) ==
  IF getUser(userId) # None /\ users[userId].role = "user"
  THEN {t \in tickets : t.createdBy = userId}
  ELSE tickets

\* GET /api/support-tickets: Express runs the handlers of a path in the
\* order of their registration; the first answers every request and never
\* calls next(), so the second is not reached
ListSupportTickets(c) ==
  /\ Accept
  /\ IF ~isAuthenticated(c)
     THEN Unauthorized("listTickets", c)
     ELSE /\ SupportTicketsAdminOnly(c, reqUser(c))
          /\ UNCHANGED <<users, session, minted>>
  /\ UNCHANGED <<inflight, issued, redeemed, production, pending, business>>
  /\ SessionClock(c, FALSE)

AllIds == {AdminId} \cup Usernames \cup {LocalId(i) : i \in 1 .. MaxLocal}

NonAdminNext ==
  \/ \E c \in Clients, e \in Emails, p \in Passwords : Login(c, e, p)
  \/ \E c \in Clients, e \in NewEmails, p \in Passwords, s \in Salts : Register(c, e, p, s, "Ann")
  \/ \E c \in Clients : Logout(c)
  \/ \E e \in Emails \cup {None} : ForgotPassword(e)
  \/ \E s \in Slots, e \in Emails \cup {None}, p \in Passwords, t \in TokenValues \cup {None} :
        ResetPasswordBegin(s, e, p, t)
  \/ \E s \in Slots, salt \in Salts : ResetPasswordFinish(s, salt)
  \/ \E c \in Clients, b \in ProfileBodies : UpdateProfile(c, b)
  \/ \E c \in Clients, ok \in BOOLEAN, l \in LicenseTypes : PaymentStatus(c, ok, l)

AdminNext ==
  \/ \E c \in Clients, u \in Usernames, e \in NewEmails, r \in Roles \cup {None} :
        AdminCreateUser(c, u, e, r, None)
  \/ \E c \in Clients, id \in AllIds \cup {"alice@x"}, s \in Salts, ok \in BOOLEAN :
        AdminResetPassword(c, id, s, ok)
  \/ \E c \in Clients, id \in AllIds, b \in AdminBodies : AdminUpdateUser(c, id, b)
  \/ \E c \in Clients, id \in AllIds : AdminDeleteUser(c, id)

Next == NonAdminNext \/ AdminNext

Spec == Init /\ [][Next]_vars

SpecProduction == InitProduction /\ [][Next]_vars

\* the server after a registration on client c2, a login of the
\* administrator on client c1 and, for the roles other than "user", a PATCH
\* of the new user's role by the administrator
InitRoles ==
  /\ \E r \in Roles :
       users = (AdminId :> [email |-> "root@x", password |-> hashPassword("pw1", "s1"),
                            role |-> "admin", firstName |-> "Ann", licenseType |-> "basic"])
               @@ (LocalId(1) :> [email |-> "alice@x", password |-> hashPassword("pw2", "s2"),
                                  role |-> r, firstName |-> "Ann", licenseType |-> "basic"])
  /\ session = [c \in Clients |-> IF c = "c1" THEN AdminId ELSE LocalId(1)]
  /\ inflight = [s \in Slots |-> IdleSlot]
  /\ response = Respond("none", NoRequest, 0, [message |-> None])
  /\ issued = {}
  /\ redeemed = {}
  /\ minted = 1
  /\ production = FALSE
  /\ nops = 0
  /\ now = 0
  /\ expire = [c \in Clients |-> sessionTtl]
  /\ created = [c \in Clients |-> 0]
  /\ pending = [c \in Clients |-> NoRegistration]
  /\ projects = {}
  /\ tickets = {}
  /\ creating = [c \in Clients |-> NoCall]

\* the routes behind isAuthenticated, with login and logout
NextRoles ==
  \/ \E c \in Clients, e \in Emails, p \in Passwords : Login(c, e, p)
  \/ \E c \in Clients : Logout(c)
  \/ \E c \in Clients : GetUser(c)
  \/ \E c \in Clients, valid \in BOOLEAN : CreateProject(c, valid)
  \/ \E c \in Clients, b \in ProfileBodies : UpdateProfile(c, b)
  \/ \E c \in Clients, ok \in BOOLEAN, l \in LicenseTypes : PaymentStatus(c, ok, l)
  \/ AdminNext

SpecRoles == InitRoles /\ [][NextRoles]_vars

\* sessions over time
NextTime ==
  \/ \E c \in Clients, e \in Emails, p \in Passwords : Login(c, e, p)
  \/ \E c \in Clients : Logout(c)
  \/ \E c \in Clients : GetUser(c)
  \/ \E d \in {1, sessionTtl} : Tick(d)

SpecTime == Init /\ [][NextTime]_vars

\* the routes that write e-mail addresses, POST /api/register in its two steps
NextRegister ==
  \/ \E c \in Clients, e \in Emails, p \in Passwords : Login(c, e, p)
  \/ \E c \in Clients, e \in NewEmails, p \in Passwords : RegisterBegin(c, e, p, "Ann")
  \/ \E c \in Clients, s \in Salts : RegisterFinish(c, s)
  \/ \E c \in Clients, u \in Usernames, e \in NewEmails, r \in Roles \cup {None} :
        AdminCreateUser(c, u, e, r, None)
  \/ \E c \in Clients, id \in AllIds, b \in AdminBodies : AdminUpdateUser(c, id, b)

SpecRegister == Init /\ [][NextRegister]_vars

\* the routes that write or check passwords
NextPasswords ==
  \/ \E c \in Clients, e \in Emails, p \in Passwords : Login(c, e, p)
  \/ \E c \in Clients, e \in NewEmails, p \in Passwords, s \in Salts : Register(c, e, p, s, "Ann")
  \/ \E e \in Emails \cup {None} : ForgotPassword(e)
  \/ \E s \in Slots, e \in Emails \cup {None}, p \in Passwords, t \in TokenValues \cup {None} :
        ResetPasswordBegin(s, e, p, t)
  \/ \E s \in Slots, salt \in Salts : ResetPasswordFinish(s, salt)
  \/ \E c \in Clients, id \in AllIds \cup {"alice@x"}, s \in Salts, ok \in BOOLEAN :
        AdminResetPassword(c, id, s, ok)
  \/ \E c \in Clients, u \in Usernames, e \in NewEmails : AdminCreateUser(c, u, e, None, None)

SpecPasswords == Init /\ [][NextPasswords]_vars

\* req.body.role of the admin routes: any string the client sends
RoleInputs == Roles \cup {"superuser"}

\* the routes that store a role, with every role a request body can carry
NextRoleValues ==
  \/ \E c \in Clients, e \in Emails, p \in Passwords : Login(c, e, p)
  \/ \E c \in Clients, e \in NewEmails, p \in Passwords, s \in Salts : Register(c, e, p, s, "Ann")
  \/ \E c \in Clients, u \in Usernames, e \in NewEmails, r \in RoleInputs \cup {None} :
        AdminCreateUser(c, u, e, r, None)
  \/ \E c \in Clients, id \in AllIds, r \in RoleInputs : AdminUpdateUser(c, id, [role |-> r])

SpecRoleValues == Init /\ [][NextRoleValues]_vars

\* the support-ticket routes, with login and logout
NextTickets ==
  \/ \E c \in Clients, e \in Emails, p \in Passwords : Login(c, e, p)
  \/ \E c \in Clients : Logout(c)
  \/ \E c \in Clients, valid \in BOOLEAN : CreateSupportTicket(c, valid)
  \/ \E c \in Clients : ListSupportTickets(c)

SpecTickets == InitRoles /\ [][NextTickets]_vars

\* what the profile page sends, with login, logout and GET /api/auth/user
NextProfile ==
  \/ \E c \in Clients, e \in Emails, p \in Passwords : Login(c, e, p)
  \/ \E c \in Clients : Logout(c)
  \/ \E c \in Clients : GetUser(c)
  \/ \E c \in Clients, b \in ProfileBodies : UpdateProfile(c, b)
  \/ \E c \in Clients, status \in {200, 404} : ProfileLogout(c, status)

SpecProfile == InitRoles /\ [][NextProfile]_vars

\* POST /api/projects and POST /api/sftp/upload in their two steps next to
\* the admin routes that delete users and change roles
NextRace ==
  \/ \E c \in Clients, e \in Emails, p \in Passwords : Login(c, e, p)
  \/ \E c \in Clients : CreateProjectBegin(c)
  \/ \E c \in Clients, valid \in BOOLEAN : CreateProjectFinish(c, valid)
  \/ \E c \in Clients : SftpUploadBegin(c)
  \/ \E c \in Clients, hasName \in BOOLEAN : SftpUploadFinish(c, hasName)
  \/ \E c \in Clients, id \in AllIds, r \in Roles : AdminUpdateUser(c, id, [role |-> r])
  \/ \E c \in Clients, id \in AllIds : AdminDeleteUser(c, id)

SpecRace == InitRoles /\ [][NextRace]_vars

(***************************************************************************)
(* Properties.                                                             *)
(***************************************************************************)
IssuedTokens == {p[1] : p \in issued}

\* a record of the form <derived-key hex>.<salt hex>
IsHashRecord(str) ==
  /\ Len(str) = 3
  /\ str[1].kind = "hex" /\ str[1].bytes.len = 64
  /\ str[2].kind = "dot"
  /\ str[3].kind = "hex" /\ str[3].bytes.len = 16

\* the stored record was not produced from the plaintext p
WrongPassword(p, stored) ==
  /\ stored # AsString(p)
  /\ \A s \in Salts : stored # hashPassword(p, s)

\* C1: a reset token issued by forgot-password is redeemable at most once: a
\* reset-password request presenting a token that an earlier successful reset
\* already used is answered 400 (InvalidToken).
C1_TokenRedeemedAtMostOnce ==
  (response.op = "reset" /\ response.req.resetToken \in IssuedTokens /\ response.req.usedBefore)
    => response.status = 400

\* C2: a reset-password request presenting a token that forgot-password never
\* issued fails (400, InvalidToken).
C2_UnissuedTokenRejected ==
  (response.op = "reset" /\ response.req.resetToken \notin IssuedTokens)
    => response.status = 400

\* C3: a token issued for principal A changes only A's password: a successful
\* reset-password presenting an issued token changed the password of the
\* principal the token was issued for.
C3_TokenBoundToPrincipal ==
  (response.op = "reset" /\ response.status = 200 /\ response.req.resetToken \in IssuedTokens)
    => <<response.req.resetToken, response.req.user>> \in issued

\* C4: of two concurrent reset-password requests presenting the same valid
\* token at most one succeeds: a request that was in flight while another
\* request with the same token succeeded is answered 400 (InvalidToken).
C4_ConcurrentRedeemOnce ==
  (response.op = "reset" /\ response.req.resetToken \in IssuedTokens /\ response.req.raced)
    => response.status = 400

\* C5: in every reachable state every stored password is an encoded hash
\* record (derived-key hex, delimiter, salt hex), never a plaintext.
C5_PasswordsAreHashRecords ==
  \A i \in DOMAIN users : IsHashRecord(users[i].password)

\* C6: comparePasswords returns false and never throws on a malformed stored
\* record, so a login against an account whose stored password is malformed
\* is answered 401 (InvalidCredentials).
C6_VerifyNeverThrows ==
  response.op = "login" =>
    LET u == getUserByEmail(response.req.email)
    IN (u # None /\ ~IsHashRecord(users[u].password)) =>
         /\ comparePasswords(response.req.password, users[u].password) = "false"
         /\ response.status = 401

\* C7: a login with an e-mail no account has and a login with an existing
\* e-mail and a wrong password get the identical response, 401 Unauthorized.
C7_LoginFailuresIdentical ==
  response.op = "login" =>
    LET u == getUserByEmail(response.req.email)
    IN (u = None \/ WrongPassword(response.req.password, users[u].password)) =>
         /\ response.status = 401
         /\ response.body = [message |-> "Unauthorized"]

\* C8: forgot-password returns the same public response whether or not an
\* account with the e-mail exists (the response it gives for an absent account).
C8_ForgotResponseIdentical ==
  (response.op = "forgot" /\ response.req.email # None) =>
     /\ response.status = 200
     /\ DOMAIN response.body = {"message"}
     /\ response.body.message = ResetLinkSent

\* C9: in a production configuration the forgot-password response never
\* contains the reset token.
C9_NoTokenInProduction ==
  (production /\ response.op = "forgot") => "resetToken" \notin DOMAIN response.body

\* C10: a principal's role changes only through an operation performed by an
\* admin-level actor: every step in which the role of an existing principal
\* changes is a successful PATCH /api/admin/users/:id issued by a client whose
\* principal had role admin; register, login, logout, profile update, password
\* reset and payment steps leave every role as it was.
RoleChanged ==
  \E i \in DOMAIN users \cap DOMAIN users' : users'[i].role # users[i].role

C10_RoleChangedOnlyByAdmin ==
  [][RoleChanged =>
       /\ response'.op = "adminUpdate"
       /\ response'.status = 200
       /\ isAdmin(response'.req.client)]_vars

\* C10 witness: a non-admin principal sent a profile update carrying a role
\* field, the update was applied, and the principal's role is still user.
C10_Witness ==
  /\ response.op = "profile"
  /\ response.status = 200
  /\ "role" \in response.req.keys
  /\ session[response.req.client] \in DOMAIN users
  /\ users[session[response.req.client]].role = "user"

\* the step answers a request (every request is counted once, when accepted)
IsRequest == nops' = nops + 1

\* the total order user < manager < admin
Rank(role) == CASE role = "user" -> 1 [] role = "manager" -> 2 [] role = "admin" -> 3

AdminOps == {"adminCreate", "adminReset", "adminUpdate", "adminDelete"}

\* the minimum role of the role-guarded operations
MinRole(op) == IF op = "createProject" THEN "manager" ELSE "admin"

\* C11: a role-guarded operation (POST /api/projects needs manager, the admin
\* routes need admin) requested by an authenticated principal is answered 403
\* exactly when the principal's stored role ranks below the operation's
\* minimum role in the order user < manager < admin.
C11_ForbiddenIffRankBelow ==
  [][\A c \in Clients :
        (/\ IsRequest
         /\ response'.op \in AdminOps \cup {"createProject"}
         /\ response'.req.client = c
         /\ reqUser(c) # None)
        => (response'.status = 403
              <=> Rank(users[reqUser(c)].role) < Rank(MinRole(response'.op)))]_vars

\* C11 witness: a principal with role manager was admitted to POST
\* /api/projects and the project exists.
C11_Witness ==
  /\ response.op = "createProject"
  /\ response.status = 201
  /\ session[response.req.client] \in DOMAIN users
  /\ users[session[response.req.client]].role = "manager"
  /\ session[response.req.client] \in projects

ProtectedOps == AdminOps \cup {"createProject", "profile", "payment", "user"}

\* C12: a request to a protected route by a client for which no principal is
\* resolved (no session, an expired session, or a session of a deleted user)
\* is answered 401, and neither the users table nor the projects table nor
\* the reset tokens change.
C12_UnauthenticatedNoEffect ==
  [][\A c \in Clients :
        (/\ IsRequest
         /\ response'.op \in ProtectedOps
         /\ response'.req.client = c
         /\ reqUser(c) = None)
        => (/\ response'.status = 401
            /\ UNCHANGED <<users, projects, issued, redeemed, minted>>)]_vars

\* C12 witness: a client without a session asked for POST /api/projects,
\* was answered 401, and no project exists.
C12_Witness ==
  /\ response.op = "createProject"
  /\ response.status = 401
  /\ session[response.req.client] = None
  /\ projects = {}

LoggedIn(c) ==
  /\ IsRequest
  /\ \/ response'.op = "login" /\ response'.status = 200
     \/ response'.op = "register" /\ response'.status = 201
  /\ response'.req.client = c

\* C14: after POST /api/auth/logout the client's session resolves to no
\* principal, and a client whose session resolves to no principal stays so
\* until a step that is a successful login (or registration) of that client.
C14_LogoutThenUnauthenticated ==
  [][\A c \in Clients :
        /\ (IsRequest /\ response'.op = "logout" /\ response'.req.client = c)
             => (reqUser(c))' = None
        /\ (reqUser(c) = None /\ (reqUser(c))' # None) => LoggedIn(c)]_vars

\* C14 witness: after exactly two requests, a logout of the registered
\* user's client and then its GET /api/auth/user, the second was answered
\* 401 although the user still exists.
C14_Witness ==
  /\ nops = 2
  /\ LocalId(1) \in DOMAIN users
  /\ response.op = "user"
  /\ response.status = 401
  /\ response.req.client = "c2"
  /\ session["c2"] = None

\* C15: right after a successful login or registration the client's session
\* resolves to the principal the response names, and for a login with e-mail
\* e that principal is the one whose e-mail is e (compared case-insensitively).
C15_NewSessionResolvesToPrincipal ==
  /\ (response.op = "login" /\ response.status = 200)
       => /\ reqUser(response.req.client) = response.body.user
          /\ response.body.user \in DOMAIN users
          /\ Lower(users[response.body.user].email) = Lower(response.req.email)
  /\ (response.op = "register" /\ response.status = 201)
       => /\ reqUser(response.req.client) = response.body.user
          /\ response.body.user \in DOMAIN users

\* C15 witness: the administrator logged in with root@x and the client's
\* session resolves to the administrator.
C15_Witness ==
  /\ response.op = "login"
  /\ response.status = 200
  /\ response.req.email = "root@x"
  /\ reqUser(response.req.client) = AdminId

\* C16: while the clock is past a session's stored expiry the session
\* resolves to no principal although nothing destroyed it, and a GET
\* /api/auth/user carrying it is answered 401.
C16_ExpiredSessionUnauthenticated ==
  [][\A c \in Clients :
        (session[c] # None /\ now > expire[c])
        => (/\ reqUser(c) = None
            /\ (IsRequest /\ response'.op = "user" /\ response'.req.client = c)
                 => response'.status = 401)]_vars

\* C16 witness: the administrator's session is still stored, the clock is
\* past its expiry, and it resolves to nobody.
C16_Witness ==
  \E c \in Clients :
    /\ session[c] = AdminId
    /\ now > expire[c]
    /\ reqUser(c) = None

\* C17 as stated: every stored session expires sessionTtl after its creation.
C17_ExpiryFixedFromCreation ==
  \A c \in Clients : session[c] # None => expire[c] = created[c] + sessionTtl

\* C17 amended: a session expires sessionTtl after the last request that
\* carried it. A login sets the expiry to the day of creation plus
\* sessionTtl; a GET /api/auth/user that resolves the session keeps its
\* creation day and moves the expiry to the day of the request plus
\* sessionTtl; the passing of time alone leaves the expiry as it is.
C17_ExpirySlidesOnUse ==
  [][\A c \in Clients :
        /\ LoggedIn(c) => (expire'[c] = now + sessionTtl /\ created'[c] = now)
        /\ (IsRequest /\ response'.op = "user" /\ response'.status = 200
               /\ response'.req.client = c)
             => (expire'[c] = now + sessionTtl /\ created'[c] = created[c])
        /\ now' # now => expire'[c] = expire[c]]_vars

\* C17 witness: a session resolves to its principal more than sessionTtl
\* after it was created.
C17_Witness ==
  \E c \in Clients :
    /\ reqUser(c) # None
    /\ now > created[c] + sessionTtl

\* an account with this e-mail address exists, compared case-insensitively
EmailExists(e) == \E i \in DOMAIN users : Lower(users[i].email) = Lower(e)

\* C18: a POST /api/auth/register whose e-mail belongs to an existing account
\* (compared case-insensitively) never gets past the existence check; it is
\* answered 400 "User already exists", and the step creates no principal and
\* no session.
C18_DuplicateEmailRejected ==
  [][/\ \A c \in Clients :
          (pending[c] = NoRegistration /\ pending'[c] # NoRegistration)
          => ~EmailExists(pending'[c].email)
     /\ (IsRequest /\ UNCHANGED pending /\ response'.op = "register"
           /\ EmailExists(response'.req.email))
          => (/\ response'.status = 400
              /\ response'.body.message = "User already exists"
              /\ UNCHANGED <<users, minted>>
              /\ \A c \in Clients : session'[c] \in {session[c], None})]_vars

\* C18 witness: alice@x is registered, and a registration for Alice@x was
\* answered 400 while there is still one account besides the administrator's.
C18_Witness ==
  /\ response.op = "register"
  /\ response.status = 400
  /\ response.req.email = "Alice@x"
  /\ LocalId(1) \in DOMAIN users
  /\ users[LocalId(1)].email = "alice@x"
  /\ Cardinality(DOMAIN users) = 2

\* C19: in every reachable state no two principals have the same e-mail
\* address, compared case-insensitively, whatever the interleaving of the two
\* steps of registrations, admin user creation and admin user update.
C19_EmailUnique ==
  \A i, j \in DOMAIN users :
    i # j => Lower(users[i].email) # Lower(users[j].email)

\* C19 witness: two registration requests and nothing else were accepted,
\* both passed the existence check, one created the account and the other was
\* answered 500 for an e-mail address that now belongs to that account.
C19_Witness ==
  /\ nops = 2
  /\ response.op = "register"
  /\ response.status = 500
  /\ \A c \in Clients : pending[c] = NoRegistration
  /\ LocalId(1) \in DOMAIN users
  /\ Lower(users[LocalId(1)].email) = Lower(response.req.email)

\* C20: right after a registration answered 201 the users table holds the
\* new principal with the e-mail address of the request and role user, and
\* the registering client's session resolves to that principal without a
\* login request.
C20_RegisterPersistsAndLogsIn ==
  (response.op = "register" /\ response.status = 201)
  => /\ response.body.user \in DOMAIN users
     /\ users[response.body.user].email = response.req.email
     /\ users[response.body.user].role = "user"
     /\ IsHashRecord(users[response.body.user].password)
     /\ reqUser(response.req.client) = response.body.user

\* C20 witness: the only request so far is a registration of alice@x; it was
\* answered 201 and the client's session resolves to the new user.
C20_Witness ==
  /\ nops = 1
  /\ response.op = "register"
  /\ response.status = 201
  /\ response.req.email = "alice@x"
  /\ reqUser(response.req.client) = LocalId(1)
  /\ users[LocalId(1)].role = "user"

\* C21: right after a reset-password request answered 200 for a principal
\* that still exists, a login with the principal's e-mail address and the new
\* password is verified, and a login with any other password, the old one
\* included, fails.
C21_ResetReplacesPassword ==
  (response.op = "reset" /\ response.status = 200 /\ response.req.user \in DOMAIN users)
  => LET e == users[response.req.user].email
     IN /\ verifyCallback(e, response.req.newPassword) = <<"ok", response.req.user>>
        /\ \A p \in Passwords \ {response.req.newPassword} :
              verifyCallback(e, p) = <<"fail", None>>

\* C21 witness: the administrator's password was reset from pw1 to pw2, and a
\* login as root@x with the old password pw1 was answered 401.
C21_Witness ==
  /\ response.op = "login"
  /\ response.status = 401
  /\ response.req.email = "root@x"
  /\ response.req.password = "pw1"
  /\ \E s \in Salts : users[AdminId].password = hashPassword("pw2", s)

\* the stored record is a hash record made from the plaintext p
HashOf(p, stored) == \E s \in Salts : stored = hashPassword(p, s)

\* C22: a login request that is not answered 200 creates no session and
\* writes no user; a client's session comes to hold a principal only in a
\* step that is a successful login or registration of that client for that
\* principal; and a login is answered 200 only when the supplied password is
\* the one the stored record of the account with the supplied e-mail address
\* was made from.
C22_FailedLoginCreatesNoSession ==
  [][/\ (IsRequest /\ inflight' = inflight /\ response'.op = "login"
           /\ response'.status # 200)
          => (/\ \A c \in Clients : session'[c] \in {session[c], None}
              /\ UNCHANGED users)
     /\ \A c \in Clients :
          (session'[c] # None /\ session'[c] # session[c])
          => (LoggedIn(c) /\ response'.body.user = session'[c])
     /\ (IsRequest /\ inflight' = inflight /\ response'.op = "login"
           /\ response'.status = 200)
          => (/\ response'.body.user \in DOMAIN users
              /\ Lower(users[response'.body.user].email) = Lower(response'.req.email)
              /\ HashOf(response'.req.password, users[response'.body.user].password))]_vars

\* C22 witness: the only request so far is a login as root@x with the wrong
\* password pw2; it was answered 401 and no client has a session.
C22_Witness ==
  /\ nops = 1
  /\ response.op = "login"
  /\ response.status = 401
  /\ response.req.email = "root@x"
  /\ response.req.password = "pw2"
  /\ \A c \in Clients : session[c] = None

\* C23: in every reachable state the role of every principal is one of user,
\* manager and admin.
C23_RolesWithinSet ==
  \A i \in DOMAIN users : users[i].role \in Roles

\* the principal an admin reset-password request with this :id worked on
AdminResetTarget(id) == IF getUser(id) # None THEN getUser(id) ELSE getUserByEmail(id)

\* C24: comparePasswords(p, hashPassword(p)) is true for every password and
\* salt, and right after a registration, a self-service reset or an admin
\* reset was answered with success for a principal, the login strategy
\* verifies that principal's e-mail address with the password that was set.
C24_VerifyAcceptsHashOfSamePassword ==
  /\ \A p \in Passwords \cup {generateSecurePassword}, s \in Salts :
        comparePasswords(p, hashPassword(p, s)) = "true"
  /\ (response.op = "register" /\ response.status = 201)
       => verifyCallback(response.req.email, response.req.password)
            = <<"ok", response.body.user>>
  /\ (response.op = "reset" /\ response.status = 200 /\ response.req.user \in DOMAIN users)
       => verifyCallback(users[response.req.user].email, response.req.newPassword)
            = <<"ok", response.req.user>>
  /\ (response.op = "adminReset" /\ response.status = 200)
       => /\ AdminResetTarget(response.req.id) # None
          /\ verifyCallback(users[AdminResetTarget(response.req.id)].email,
                            generateSecurePassword)
               = <<"ok", AdminResetTarget(response.req.id)>>

\* C24 witness: the administrator's password was set to pw2 by a
\* self-service reset, and a login as root@x with pw2 was answered 200.
C24_Witness ==
  /\ response.op = "login"
  /\ response.status = 200
  /\ response.req.email = "root@x"
  /\ response.req.password = "pw2"
  /\ response.body.user = AdminId

\* C25: a GET /api/support-tickets of an authenticated principal is answered
\* 200 with exactly the tickets that principal created when its role is
\* user, and with all tickets when its role is manager or admin.
C25_TicketsFilteredByRole ==
  (response.op = "listTickets" /\ reqUser(response.req.client) # None)
  => /\ response.status = 200
     /\ response.body.tickets = SupportTicketsByRole(reqUser(response.req.client))

\* C26: after the Abmelden action of the profile page the client's session
\* resolves to no principal, so that a following GET /api/auth/user is
\* answered 401.
C26_ProfileLogoutEndsSession ==
  response.op = "profileLogout" => reqUser(response.req.client) = None

\* C27: a DELETE /api/admin/users/:id of an administrator whose :id is the
\* administrator's own id is answered 400 and leaves the users table as it
\* is; with any other :id it is answered 200 and afterwards the users table
\* is the old one without that id.
C27_AdminCannotDeleteSelf ==
  [][\A c \in Clients :
        (/\ IsRequest
         /\ response'.op = "adminDelete"
         /\ response'.req.client = c
         /\ reqUser(c) # None
         /\ users[reqUser(c)].role = "admin")
        => IF response'.req.id = reqUser(c)
           THEN response'.status = 400 /\ UNCHANGED users
           ELSE /\ response'.status = 200
                /\ DOMAIN users' = DOMAIN users \ {response'.req.id}
                /\ \A i \in DOMAIN users' : users'[i] = users[i]]_vars

\* C27 witness: the administrator asked for the deletion of the
\* administrator's own account, was answered 400, and the account exists.
C27_Witness ==
  /\ response.op = "adminDelete"
  /\ response.status = 400
  /\ response.req.id = AdminId
  /\ session[response.req.client] = AdminId
  /\ AdminId \in DOMAIN users

\* the principal on whose behalf the last answered manager-level request ran
ManagerCallUser ==
  IF response.op = "createProject" THEN response.body.managerId ELSE response.req.user

\* C28: a POST /api/projects or POST /api/sftp/upload is answered with
\* success (201, 200) only when the role lookup of its handler found an
\* existing principal with role manager or admin; a request whose principal
\* was deleted between the session check and the lookup is rejected.
C28_EffectOnlyForExistingManager ==
  (\/ response.op = "createProject" /\ response.status = 201
   \/ response.op = "sftpUpload" /\ response.status = 200)
  => /\ ManagerCallUser \in DOMAIN users
     /\ users[ManagerCallUser].role \in {"manager", "admin"}

\* C29: an admin-only request carrying a session of a principal whose stored
\* role is, at the time of the request, not admin is answered 403 and writes
\* no user, whatever the role was when the session was created and without
\* the principal logging in again.
C29_CurrentRoleDecides ==
  [][\A c \in Clients :
        (/\ IsRequest
         /\ response'.op \in AdminOps
         /\ response'.req.client = c
         /\ reqUser(c) # None
         /\ users[reqUser(c)].role # "admin")
        => (response'.status = 403 /\ UNCHANGED <<users, session>>)]_vars

\* C29 witness: two requests were accepted on sessions that exist since the
\* start; the first lowered the administrator's role, and the second, an
\* admin-only request on the administrator's session, was answered 403.
C29_Witness ==
  /\ nops = 2
  /\ users[AdminId].role # "admin"
  /\ response.op \in AdminOps
  /\ response.status = 403
  /\ session[response.req.client] = AdminId
  /\ created[response.req.client] = 0

\* C30: an admin reset-password request that reports a failure (the target
\* was not found, or the e-mail with the new password could not be sent)
\* leaves the users table, and with it the target's stored password, as it
\* was.
C30_FailedAdminResetChangesNothing ==
  [][(/\ IsRequest
      /\ inflight' = inflight
      /\ response'.op = "adminReset"
      /\ response'.status \in {404, 500})
     => UNCHANGED users]_vars

====
